---- MODULE Spec2Model ----
(***************************************************************************)
(* AdHocVcc routing: the Low-Power Vehicle (LPV) sends a two-byte          *)
(* (source, destination) request to the High-Power Vehicle (HPV); the HPV  *)
(* fetches the edge weights from the Cloud Server, runs Dijkstra and       *)
(* replies with the path.                                                  *)
(*                                                                         *)
(* The specifications of this module:                                      *)
(*   SpecPath   : HPV_GetShortestPath run step by step on every edge map   *)
(*                and query of the bounded input space (SpecPathFair: the  *)
(*                same, with the steps that can be taken being taken);     *)
(*   Spec       : the LPV / HPV / Cloud Server sessions over TCP streams;  *)
(*   SpecClient : LowPowerVehicle.py on every reply of the bounded input   *)
(*                space;                                                   *)
(*   SpecFetch  : CloudServer_SendWeights and HPV_ReceiveWeights on every  *)
(*                edge map of the bounded input space.                     *)
(*                                                                         *)
(* Nodes are characters, modelled by their code points (65 = 'A').  A      *)
(* Python dict is modelled as the sequence of its items in insertion       *)
(* order (keys distinct), a list as a sequence, bytes as a sequence of     *)
(* integers in 0..255.                                                     *)
(***************************************************************************)
EXTENDS Integers, Sequences, FiniteSets, TLC

(***************************************************************************)
(* Bounds of the input space of SpecPath.                                  *)
(***************************************************************************)
\* items of an edge map
MaxEdges == 3
\* largest edge weight
MaxWeight == 1

(***************************************************************************)
(* Bounds of Spec.                                                         *)
(***************************************************************************)
\* connections the LPV side opens to the HPV
MaxLpvSessions == 2
\* bytes of one LPV request
MaxRequestLen == 3
\* connections opened to the Cloud Server by a peer other than the HPV
MaxOtherSessions == 1

(***************************************************************************)
(* Bound of SpecFetch.                                                     *)
(***************************************************************************)
\* items of a small edge map held by the Cloud Server
MaxFetchEdges == 2

(***************************************************************************)
(* Bound of SpecClient.                                                    *)
(***************************************************************************)
\* bytes of one reply to LowPowerVehicle.py
MaxReplyLen == 3

\* float('inf') of the distance dictionary: larger than any path weight
Infinity == 1000000

\* Python's None, as a value of source / destination
PyNone == -1

\* the node alphabet of SpecPath: 'A', 'B', 'C'
Nodes == {65, 66, 67}
Weights == 0 .. MaxWeight

VARIABLES
    \* ---- SpecPath: one call of HPV_GetShortestPath -------------------
    map,            \* argument: sequence of <<u, v, w>> (dict items)
    source,         \* argument
    destination,    \* argument
    graph,          \* adjacency list: node -> sequence of <<neighbor, w>>
    distances,      \* node -> best recorded distance
    pq,             \* the heap, kept as the sorted sequence of its entries
    path,           \* the returned list
    pc,             \* "off" | "call" | "loop" | "returned"
    \* ---- Spec: the LPV side (any peer of the HPV's port) -------------
    lpvPc,          \* "idle" | "connected" | "sent"
    lpvSock,        \* the connection to the HPV: "none" | "pending" |
                    \*   "accepted" | "closed" (closed by the HPV)
    lpvRequest,     \* bytes sent on this connection
    lpvToHpv,       \* bytes sent and not yet read by the HPV
    lpvClosed,      \* the LPV side closed before sending anything
    lpvReply,       \* bytes the HPV sent on this connection
    lpvSessions,    \* connections opened so far
    lpvWaiting,     \* connections of further hosts in the HPV's listen queue
    shortSeen,      \* an earlier session of the HPV read fewer than 2 bytes
    \* ---- Spec: the HPV (main of HighPowerVehicle.py) -----------------
    hpvPc,          \* the statement main is at, or "crashed"
    hpvData,        \* bytes returned by recv(2) in this session
    hpvSource,      \* main's source
    hpvDestination, \* main's destination
    receivedWeights,\* main's receivedWeights
    shortestPath,   \* main's shortestPath
    hpvFetches,     \* connections to the Cloud Server tried in this session
    fetchFailure,   \* "none" | "refused" | "mismatch" | "deserialize"
    hpvError,       \* the uncaught exception, "" when none
    hpvOpen,        \* sockets main holds that it has not close()d:
                    \*   [lpv |-> accepted ones, cloud |-> connected ones]
    weightsBound,   \* receivedWeights was assigned in the current iteration
    \* ---- Spec: the Cloud Server (main of CloudServer.py) -------------
    cloudPc,        \* the statement main is at, "crashed" or "stopped"
    cloudPeer,      \* the peer of the accepted connection, "none" when idle
    cloudHandshake, \* outcome of the handshake of this session
    cloudError,     \* the uncaught exception, "" when none
    conn,           \* peer -> the TCP connection peer <-> Cloud Server
    globalGraph,    \* the dict CloudServer_GlobalGraph
    cloudOpen,      \* accepted sockets main has not close()d
    cloudProbe,     \* bytes read by the handshake of this session
    cloudWrote,     \* the writes of this session, in order
    otherSessions,  \* connections opened by the other peer so far
    \* ---- SpecClient: LowPowerVehicle.py ------------------------------
    clientPc,       \* "off" | "recv" | "format" | "done" | "crashed"
    clientStream,   \* bytes its peer wrote on the connection before closing
    clientData,     \* bytes returned by recv(1024)
    response,       \* the decoded text
    formatted_path, \* the text printed behind "Here is the shortest path: "
    clientError     \* the uncaught exception, "" when none

pathVars == <<map, source, destination, graph, distances, pq, path, pc>>

lpvVars == <<lpvPc, lpvSock, lpvRequest, lpvToHpv, lpvClosed, lpvReply,
             lpvSessions, lpvWaiting, shortSeen>>

hpvVars == <<hpvPc, hpvData, hpvSource, hpvDestination, receivedWeights,
             shortestPath, hpvFetches, fetchFailure, hpvError, hpvOpen,
             weightsBound>>

cloudVars == <<cloudPc, cloudPeer, cloudHandshake, cloudError, conn,
               globalGraph, cloudOpen, cloudProbe, cloudWrote, otherSessions>>

protoVars == <<lpvVars, hpvVars, cloudVars>>

clientVars == <<clientPc, clientStream, clientData, response, formatted_path,
                clientError>>

vars == <<pathVars, protoVars, clientVars>>

(***************************************************************************)
(* Sequence helpers                                                        *)
(***************************************************************************)
Min(a, b) == IF a < b THEN a ELSE b

Range(s) == {s[i] : i \in 1..Len(s)}

\* Python's list comparison a < b (lexicographic)
RECURSIVE ListLess(_, _)
ListLess(a, b) ==
    IF b = <<>> THEN FALSE
    ELSE IF a = <<>> THEN TRUE
    ELSE IF Head(a) < Head(b) THEN TRUE
    ELSE IF Head(a) > Head(b) THEN FALSE
    ELSE ListLess(Tail(a), Tail(b))

\* mutant of EntryLess: the heap entries are ordered by node before distance
EntryLess_NodeFirst(e, f) ==
    \/ e[2] < f[2]
    \/ e[2] = f[2] /\ e[1] < f[1]
    \/ e[1] = f[1] /\ e[2] = f[2] /\ ListLess(e[3], f[3])

\* Python's tuple comparison of heap entries (distance, node, path)
EntryLess(e, f) ==
    \/ e[1] < f[1]
    \/ e[1] = f[1] /\ e[2] < f[2]
    \/ e[1] = f[1] /\ e[2] = f[2] /\ ListLess(e[3], f[3])

\* heapq.heappush: the heap is kept as the ascending sequence of its entries
RECURSIVE heappush(_, _)
heappush(h, e) ==
    IF h = <<>> THEN <<e>>
    ELSE IF EntryLess(e, Head(h)) THEN <<e>> \o h
    ELSE <<Head(h)>> \o heappush(Tail(h), e)

(***************************************************************************)
(* HPV_GetShortestPath                                                     *)
(***************************************************************************)
\* the adjacency list nbrs without its entries for node n
WithoutNeighbor(nbrs, n) == SelectSeq(nbrs, LAMBDA e : e[1] # n)

\* mutant of BuildGraph: an item replaces the entries an earlier item made
\* for the same pair of nodes
RECURSIVE BuildGraph_LastWins(_, _)
BuildGraph_LastWins(m, g) ==
    IF m = <<>> THEN g
    ELSE LET u == Head(m)[1]
             v == Head(m)[2]
             w == Head(m)[3]
             g1 == IF u \in DOMAIN g THEN g ELSE g @@ (u :> <<>>)
             g2 == IF v \in DOMAIN g1 THEN g1 ELSE g1 @@ (v :> <<>>)
             g3 == [g2 EXCEPT ![u] = Append(WithoutNeighbor(@, v), <<v, w>>)]
             g4 == [g3 EXCEPT ![v] = Append(WithoutNeighbor(@, u), <<u, w>>)]
         IN BuildGraph_LastWins(Tail(m), g4)

\* lines 245-255: the adjacency list, both directions of every item,
\* in the enumeration order of map.items()
RECURSIVE BuildGraph(_, _)
BuildGraph(m, g) ==
    IF m = <<>> THEN g
    ELSE LET u == Head(m)[1]
             v == Head(m)[2]
             w == Head(m)[3]
             g1 == IF u \in DOMAIN g THEN g ELSE g @@ (u :> <<>>)
             g2 == IF v \in DOMAIN g1 THEN g1 ELSE g1 @@ (v :> <<>>)
             g3 == [g2 EXCEPT ![u] = Append(@, <<v, w>>)]
             g4 == [g3 EXCEPT ![v] = Append(@, <<u, w>>)]
         IN BuildGraph(Tail(m), g4)

EmptyDict == [n \in {} |-> <<>>]

AdjacencyOf(m) == BuildGraph(m, EmptyDict)

\* graph.get(current_node, [])
GraphGet(g, n) == IF n \in DOMAIN g THEN g[n] ELSE <<>>

\* mutant of InitDistances: "distances[source] = 0" is left out
InitDistances_NoSource(g, s) == [n \in DOMAIN g |-> Infinity]

\* lines 262-263: infinity for every node of the map, 0 for the source
InitDistances(g, s) ==
    [n \in (DOMAIN g) \cup {s} |-> IF n = s THEN 0 ELSE Infinity]

\* mutant of InitPq: the seed entry carries an empty path
InitPq_EmptyPath(s) == heappush(<<>>, <<0, s, <<>>>>)

\* lines 258-259
InitPq(s) == heappush(<<>>, <<0, s, <<s>>>>)

\* mutant of Relax: the relaxation stops at the first neighbor it improves
RECURSIVE Relax_FirstOnly(_, _, _, _)
Relax_FirstOnly(nbrs, current_distance, curPath, st) ==
    IF nbrs = <<>> THEN st
    ELSE LET neighbor == Head(nbrs)[1]
             weight == Head(nbrs)[2]
             distance == current_distance + weight
         IN IF distance < st.distances[neighbor]
            THEN [pq |-> heappush(st.pq, <<distance, neighbor,
                                            Append(curPath, neighbor)>>),
                  distances |-> [st.distances EXCEPT ![neighbor] = distance]]
            ELSE Relax_FirstOnly(Tail(nbrs), current_distance, curPath, st)

\* mutant of Relax: the distance through the current node leaves out the
\* distance of the current node
RECURSIVE Relax_WeightOnly(_, _, _, _)
Relax_WeightOnly(nbrs, current_distance, curPath, st) ==
    IF nbrs = <<>> THEN st
    ELSE LET neighbor == Head(nbrs)[1]
             weight == Head(nbrs)[2]
             distance == weight
             st1 == IF distance < st.distances[neighbor]
                    THEN [pq |-> heappush(st.pq, <<distance, neighbor,
                                                    Append(curPath, neighbor)>>),
                          distances |-> [st.distances EXCEPT ![neighbor] = distance]]
                    ELSE st
         IN Relax_WeightOnly(Tail(nbrs), current_distance, curPath, st1)

\* lines 275-279: relax the neighbors of the popped entry in list order;
\* st = [pq, distances]
RECURSIVE Relax(_, _, _, _)
Relax(nbrs, current_distance, curPath, st) ==
    IF nbrs = <<>> THEN st
    ELSE LET neighbor == Head(nbrs)[1]
             weight == Head(nbrs)[2]
             distance == current_distance + weight
             st1 == IF distance < st.distances[neighbor]
                    THEN [pq |-> heappush(st.pq, <<distance, neighbor,
                                                    Append(curPath, neighbor)>>),
                          distances |-> [st.distances EXCEPT ![neighbor] = distance]]
                    ELSE st
         IN Relax(Tail(nbrs), current_distance, curPath, st1)

\* mutant of LoopBody: an entry that is skipped as out of date stays on the
\* heap
LoopBody_KeepsStale(st, g, d) ==
    LET e == Head(st.pq)
        current_distance == e[1]
        current_node == e[2]
        p == e[3]
        rest == Tail(st.pq)
    IN IF current_node = d
       THEN [pq |-> rest, distances |-> st.distances, path |-> p, pc |-> "returned"]
       ELSE IF current_distance > st.distances[current_node]
       THEN st
       ELSE LET r == Relax(GraphGet(g, current_node), current_distance, p,
                           [pq |-> rest, distances |-> st.distances])
            IN [st EXCEPT !.pq = r.pq, !.distances = r.distances]

\* lines 266-279: one iteration of "while pq"; st = [pq, distances, path, pc]
LoopBody(st, g, d) ==
    LET e == Head(st.pq)
        current_distance == e[1]
        current_node == e[2]
        p == e[3]
        rest == Tail(st.pq)
    IN IF current_node = d
       THEN [pq |-> rest, distances |-> st.distances, path |-> p, pc |-> "returned"]
       ELSE IF current_distance > st.distances[current_node]
       THEN [st EXCEPT !.pq = rest]
       ELSE LET r == Relax(GraphGet(g, current_node), current_distance, p,
                           [pq |-> rest, distances |-> st.distances])
            IN [st EXCEPT !.pq = r.pq, !.distances = r.distances]

\* mutant of LoopStep: an empty heap returns [destination]
LoopStep_ReturnsDestination(st, g, d) ==
    IF st.pq = <<>>
    THEN [st EXCEPT !.path = <<d>>, !.pc = "returned"]
    ELSE LoopBody(st, g, d)

\* lines 265, 281: the loop test; an empty heap returns []
LoopStep(st, g, d) ==
    IF st.pq = <<>>
    THEN [st EXCEPT !.path = <<>>, !.pc = "returned"]
    ELSE LoopBody(st, g, d)

RECURSIVE RunLoop(_, _, _)
RunLoop(st, g, d) ==
    IF st.pc = "returned" THEN st.path ELSE RunLoop(LoopStep(st, g, d), g, d)

\* the whole function, as main calls it
HPV_GetShortestPath(s, d, m) ==
    LET g == AdjacencyOf(m)
    IN RunLoop([pq |-> InitPq(s), distances |-> InitDistances(g, s),
                path |-> <<>>, pc |-> "loop"], g, d)

(***************************************************************************)
(* Bytes, text and pickle                                                  *)
(***************************************************************************)
\* bytes.decode('utf-8') on one- and two-byte sequences (the bytes of this
\* model are below 0xE0): [ok, text], text a sequence of code points; a
\* byte that starts no sequence, or a sequence cut short, raises
\* UnicodeDecodeError (ok = FALSE)
RECURSIVE Utf8Decode(_)
Utf8Decode(b) ==
    IF b = <<>> THEN [ok |-> TRUE, text |-> <<>>]
    ELSE IF b[1] < 128
    THEN LET r == Utf8Decode(Tail(b))
         IN [ok |-> r.ok, text |-> <<b[1]>> \o r.text]
    ELSE IF b[1] \in 194..223 /\ Len(b) >= 2 /\ b[2] \in 128..191
    THEN LET r == Utf8Decode(Tail(Tail(b)))
         IN [ok |-> r.ok, text |-> <<(b[1] - 192) * 64 + (b[2] - 128)>> \o r.text]
    ELSE [ok |-> FALSE, text |-> <<>>]

\* str.encode('utf-8') on code points below 0x800
RECURSIVE Utf8Encode(_)
Utf8Encode(t) ==
    IF t = <<>> THEN <<>>
    ELSE IF t[1] < 128 THEN <<t[1]>> \o Utf8Encode(Tail(t))
    ELSE <<192 + (t[1] \div 64), 128 + (t[1] % 64)>> \o Utf8Encode(Tail(t))

\* the first n elements of a stream, and the rest
Take(b, n) == SubSeq(b, 1, Min(n, Len(b)))
Drop(b, n) == SubSeq(b, Min(n, Len(b)) + 1, Len(b))

\* bufsize of the recv(1024) calls
RecvSize == 1024

\* pickle's PROTO opcode (0x80) and STOP opcode ('.')
PickleProto == 128
PickleStop == 46

\* the items of a dict, three bytes each: u, v, w
PickleItems(m) ==
    [i \in 1..(3 * Len(m)) |-> m[((i - 1) \div 3) + 1][((i - 1) % 3) + 1]]

\* mutant of PickleDumps: only the first item is written
PickleDumps_FirstItem(m) ==
    <<PickleProto>> \o PickleItems(IF m = <<>> THEN m ELSE <<Head(m)>>) \o <<PickleStop>>

\* pickle.dumps of an edge map: PROTO, the items in order (u, v, w), STOP
PickleDumps(m) == <<PickleProto>> \o PickleItems(m) \o <<PickleStop>>

\* the items of a pickle body up to the first STOP that stands where an
\* item would start; "pickle data was truncated" when there is none
UnpickleItems(b, acc) ==
    LET Stops == {k \in 0..(Len(b) \div 3) :
                     3 * k + 1 <= Len(b) /\ b[3 * k + 1] = PickleStop}
    IN IF Stops = {} THEN [err |-> "UnpicklingError", value |-> <<>>]
       ELSE LET n == CHOOSE k \in Stops : \A j \in Stops : k <= j
            IN [err |-> "",
                value |-> acc \o [i \in 1..n |->
                                    <<b[3 * i - 2], b[3 * i - 1], b[3 * i]>>]]

\* pickle.loads: EOFError on no input, UnpicklingError on a stream that
\* does not start with PROTO or is cut before STOP; bytes after STOP are
\* ignored
PickleLoads(b) ==
    IF b = <<>> THEN [err |-> "EOFError", value |-> <<>>]
    ELSE IF b[1] # PickleProto THEN [err |-> "UnpicklingError", value |-> <<>>]
    ELSE UnpickleItems(Tail(b), <<>>)

(***************************************************************************)
(* Program constants                                                       *)
(***************************************************************************)
\* CloudServer.py: A-D:1, A-B:6, D-B:2, D-E:1, E-B:2, E-C:5, B-C:5
CloudServer_GlobalGraph ==
    << <<65, 68, 1>>, <<65, 66, 6>>, <<68, 66, 2>>, <<68, 69, 1>>,
       <<69, 66, 2>>, <<69, 67, 5>>, <<66, 67, 5>> >>

\* "Test connection"
test_message == <<84, 101, 115, 116, 32, 99, 111, 110, 110, 101, 99, 116, 105, 111, 110>>

\* the peers of the Cloud Server: the HPV, and any other host that
\* connects to its port
Peers == {"hpv", "other"}

NoConn == [st |-> "none", peerEnd |-> "open", cloudEnd |-> "open",
           toCloud |-> <<>>, wire |-> <<>>, rcv |-> <<>>, graphSent |-> 0]

\* request bytes the LPV side may send: 'A', 'B', 'Z' (no node of the
\* graph) and 0xFF (no valid UTF-8)
RequestBytes == {65, 66, 90, 255}

\* probes the other peer may send: "\u00e9" (two bytes) and 0xFF
OtherProbes == {<<195, 169>>, <<255>>}

ProtoInit ==
    /\ lpvPc = "idle"
    /\ lpvSock = "none"
    /\ lpvRequest = <<>>
    /\ lpvToHpv = <<>>
    /\ lpvClosed = FALSE
    /\ lpvReply = <<>>
    /\ lpvSessions = 0
    /\ lpvWaiting = 0
    /\ shortSeen = FALSE
    /\ hpvPc = "WaitForLpvSession"
    /\ hpvData = <<>>
    /\ hpvSource = PyNone
    /\ hpvDestination = PyNone
    /\ receivedWeights = <<>>
    /\ shortestPath = <<>>
    /\ hpvFetches = 0
    /\ fetchFailure = "none"
    /\ hpvError = ""
    /\ hpvOpen = [lpv |-> 0, cloud |-> 0]
    /\ weightsBound = FALSE
    /\ cloudPc = "accept"
    /\ cloudPeer = "none"
    /\ cloudHandshake = "none"
    /\ cloudError = ""
    /\ conn = [p \in Peers |-> NoConn]
    /\ globalGraph = CloudServer_GlobalGraph
    /\ cloudOpen = 0
    /\ cloudProbe = <<>>
    /\ cloudWrote = <<>>
    /\ otherSessions = 0

ClientOff ==
    /\ clientPc = "off"
    /\ clientStream = <<>>
    /\ clientData = <<>>
    /\ response = <<>>
    /\ formatted_path = <<>>
    /\ clientError = ""

PathOff ==
    /\ map = <<>>
    /\ source = PyNone
    /\ destination = PyNone
    /\ graph = EmptyDict
    /\ distances = EmptyDict
    /\ pq = <<>>
    /\ path = <<>>
    /\ pc = "off"

(***************************************************************************)
(* SpecPath: the inputs and the stepwise run                               *)
(***************************************************************************)
\* an edge joins two distinct nodes
EdgeItems == {<<u, v, w>> \in Nodes \X Nodes \X Weights : u # v}

KeysOf(m) == {<<m[i][1], m[i][2]>> : i \in 1..Len(m)}

\* the dicts of k items: one item per key (u, v), in every insertion order
RECURSIVE DictsOfSize(_)
DictsOfSize(k) ==
    IF k = 0 THEN {<<>>}
    ELSE UNION {{Append(m, e) : e \in {x \in EdgeItems : <<x[1], x[2]>> \notin KeysOf(m)}} :
                m \in DictsOfSize(k - 1)}

EdgeMaps == UNION {DictsOfSize(k) : k \in 0..MaxEdges}

InitPath ==
    /\ map \in EdgeMaps
    /\ source \in Nodes
    /\ destination \in Nodes
    /\ graph = EmptyDict
    /\ distances = EmptyDict
    /\ pq = <<>>
    /\ path = <<>>
    /\ pc = "call"
    /\ ProtoInit
    /\ ClientOff

\* lines 245-263
GSP_Setup ==
    /\ pc = "call"
    /\ graph' = AdjacencyOf(map)
    /\ distances' = InitDistances(AdjacencyOf(map), source)
    /\ pq' = InitPq(source)
    /\ pc' = "loop"
    /\ UNCHANGED <<map, source, destination, path, protoVars, clientVars>>

\* lines 265-281: one test of "while pq", with the loop body or the final
\* "return []"
GSP_Iterate ==
    /\ pc = "loop"
    /\ LET st == LoopStep([pq |-> pq, distances |-> distances,
                           path |-> path, pc |-> pc], graph, destination)
       IN /\ pq' = st.pq
          /\ distances' = st.distances
          /\ path' = st.path
          /\ pc' = st.pc
    /\ UNCHANGED <<map, source, destination, graph, protoVars, clientVars>>

NextPath == GSP_Setup \/ GSP_Iterate

SpecPath == InitPath /\ [][NextPath]_vars

\* the interpreter keeps executing the function: a step that can be taken
\* is taken
SpecPathFair == SpecPath /\ WF_vars(NextPath)

(***************************************************************************)
(* Spec: TCP connections                                                   *)
(***************************************************************************)
\* a connection both ends have left is forgotten
Norm(c) ==
    IF c.st # "none" /\ c.peerEnd # "open" /\ c.cloudEnd = "closed"
    THEN NoConn ELSE c

\* the peer's end is closed (close(), or the exit of its process)
PeerLeaves(c) == IF c.st = "none" THEN c ELSE Norm([c EXCEPT !.peerEnd = "closed"])

\* the Cloud Server's process exits: every connection loses its end
CloudExit(cn) ==
    [p \in Peers |-> IF cn[p].st = "none" THEN cn[p]
                     ELSE Norm([cn[p] EXCEPT !.cloudEnd = "closed"])]

CloudAlive == cloudPc \notin {"crashed", "stopped"}

\* recv on the peer's side returns: bytes have arrived, or the stream ended
CanRecv(c) == c.rcv # <<>> \/ (c.wire = <<>> /\ c.cloudEnd = "closed")

\* send / sendall of b: one more write in flight (wire is the sequence of
\* the writes in flight; whole = not yet cut by the network)
Written(w, b) == IF b = <<>> THEN w ELSE Append(w, [bytes |-> b, whole |-> TRUE])

\* the lengths at which the network may cut the write in flight wr: it
\* arrives whole, or a write not cut before is cut after its first byte
Cuts(wr) == {Len(wr.bytes)} \cup (IF wr.whole /\ Len(wr.bytes) > 1 THEN {1} ELSE {})

\* the network delivers bytes the Cloud Server wrote to the HPV: the next
\* write or its first part.  Bytes delivered before the HPV reads are read
\* together.
Deliver ==
    /\ conn["hpv"].st # "none"
    /\ conn["hpv"].peerEnd = "open"
    /\ conn["hpv"].wire # <<>>
    /\ LET wr == Head(conn["hpv"].wire)
       IN \E k \in Cuts(wr) :
             conn' = [conn EXCEPT
                        !["hpv"].rcv = @ \o Take(wr.bytes, k),
                        !["hpv"].wire =
                            IF k = Len(wr.bytes) THEN Tail(@)
                            ELSE <<[bytes |-> Drop(wr.bytes, k), whole |-> FALSE]>>
                                 \o Tail(@)]
    /\ UNCHANGED <<pathVars, clientVars, lpvVars, hpvVars, cloudPc, cloudPeer,
                   cloudHandshake, cloudError, otherSessions>>
    /\ UNCHANGED <<globalGraph, cloudOpen, cloudProbe, cloudWrote>>

(***************************************************************************)
(* Spec: the LPV side                                                      *)
(***************************************************************************)
\* the HPV reads two bytes of a connection at most: the bytes behind them
\* are all 'A'
Requests ==
    {r \in UNION {[1..k -> RequestBytes] : k \in 1..MaxRequestLen} :
        \A i \in 3..Len(r) : r[i] = 65}

\* a host connects to the HPV's port
LPV_Connect ==
    /\ lpvPc = "idle"
    /\ lpvSock = "none"
    /\ hpvPc # "crashed"
    /\ lpvSessions < MaxLpvSessions
    /\ lpvPc' = "connected"
    /\ lpvSock' = "pending"
    /\ lpvSessions' = lpvSessions + 1
    /\ UNCHANGED <<pathVars, clientVars, lpvRequest, lpvToHpv, lpvClosed, lpvReply, shortSeen,
                   hpvVars, cloudVars>>
    /\ UNCHANGED <<lpvWaiting>>

\* it sends its request in one piece
LPV_SendRequest ==
    /\ lpvPc = "connected"
    /\ \E r \in Requests :
          /\ lpvRequest' = r
          /\ lpvToHpv' = r
    /\ lpvPc' = "sent"
    /\ UNCHANGED <<pathVars, clientVars, lpvSock, lpvClosed, lpvReply, lpvSessions, shortSeen,
                   hpvVars, cloudVars>>
    /\ UNCHANGED <<lpvWaiting>>

\* or closes the connection without sending
LPV_CloseEarly ==
    /\ lpvPc = "connected"
    /\ lpvClosed' = TRUE
    /\ lpvPc' = "sent"
    /\ UNCHANGED <<pathVars, clientVars, lpvSock, lpvRequest, lpvToHpv, lpvReply, lpvSessions,
                   shortSeen, hpvVars, cloudVars>>
    /\ UNCHANGED <<lpvWaiting>>

\* a further host connects to the HPV's port while the HPV is in its
\* exchange with the Cloud Server: it waits in the listen queue
LPV_ConnectWaiting ==
    /\ lpvSock = "accepted"
    /\ hpvPc \in {"TestConnectivity", "ReceiveWeights"}
    /\ lpvWaiting = 0
    /\ lpvSessions < MaxLpvSessions
    /\ lpvWaiting' = 1
    /\ lpvSessions' = lpvSessions + 1
    /\ UNCHANGED <<pathVars, clientVars, lpvPc, lpvSock, lpvRequest, lpvToHpv,
                   lpvClosed, lpvReply, shortSeen, hpvVars, cloudVars>>

\* the connection is over once the HPV has closed its end; the connection
\* waiting in the listen queue is the next one (it is reset with the queue
\* when main has ended)
LPV_ReceiveReply ==
    /\ lpvPc = "sent"
    /\ lpvSock = "closed"
    /\ lpvWaiting' = 0
    /\ lpvPc' = IF lpvWaiting > 0 /\ hpvPc # "crashed" THEN "connected" ELSE "idle"
    /\ lpvSock' = IF lpvWaiting > 0 /\ hpvPc # "crashed" THEN "pending" ELSE "none"
    /\ lpvRequest' = <<>>
    /\ lpvToHpv' = <<>>
    /\ lpvClosed' = FALSE
    /\ lpvReply' = <<>>
    /\ UNCHANGED <<pathVars, clientVars, lpvSessions, shortSeen, hpvVars, cloudVars>>

(***************************************************************************)
(* Spec: the HPV                                                           *)
(***************************************************************************)
\* an exception leaves main: the process exits and its sockets close
HpvCrash(err) ==
    /\ hpvPc' = "crashed"
    /\ hpvError' = err
    /\ lpvSock' = IF lpvSock \in {"pending", "accepted"} THEN "closed" ELSE lpvSock

\* main line 302, HPV_WaitForLpvSession: accept
HPV_WaitForLpvSession ==
    /\ hpvPc = "WaitForLpvSession"
    /\ lpvSock = "pending"
    /\ lpvSock' = "accepted"
    /\ hpvPc' = "ReceiveLpvRequest"
    /\ hpvOpen' = [hpvOpen EXCEPT !.lpv = @ + 1]
    /\ weightsBound' = FALSE
    /\ UNCHANGED <<pathVars, clientVars, lpvPc, lpvRequest, lpvToHpv, lpvClosed, lpvReply,
                   lpvSessions, shortSeen, hpvData, hpvSource, hpvDestination,
                   receivedWeights, shortestPath, hpvFetches, fetchFailure,
                   hpvError, cloudVars>>
    /\ UNCHANGED <<lpvWaiting>>

\* HPV_ReceiveLpvRequest: recv(2), decode, the length test; main does not
\* test the (None, None) it returns
HPV_ReceiveLpvRequest ==
    /\ hpvPc = "ReceiveLpvRequest"
    /\ lpvToHpv # <<>> \/ lpvClosed
    /\ LET data == Take(lpvToHpv, 2)
           dec == Utf8Decode(data)
       IN /\ hpvData' = data
          /\ lpvToHpv' = Drop(lpvToHpv, 2)
          /\ IF ~dec.ok
             THEN /\ HpvCrash("UnicodeDecodeError")
                  /\ UNCHANGED <<hpvSource, hpvDestination>>
             ELSE /\ hpvSource' = IF Len(dec.text) # 2 THEN PyNone ELSE dec.text[1]
                  /\ hpvDestination' = IF Len(dec.text) # 2 THEN PyNone ELSE dec.text[2]
                  /\ hpvPc' = "ConnectToCloudServer"
                  /\ UNCHANGED <<hpvError, lpvSock>>
    /\ UNCHANGED <<pathVars, clientVars, lpvPc, lpvRequest, lpvClosed, lpvReply, lpvSessions,
                   shortSeen, receivedWeights, shortestPath, hpvFetches,
                   fetchFailure, cloudVars>>
    /\ UNCHANGED <<lpvWaiting, hpvOpen, weightsBound>>

\* HPV_ConnectToCloudServer lines 89-106: connect and send the probe.  A
\* refused connection returns None, and main line 324 calls close() on it.
\* (The previous connection of the HPV is torn down before the next one is
\* followed.)
HPV_ConnectToCloudServer ==
    /\ hpvPc = "ConnectToCloudServer"
    /\ conn["hpv"].st = "none"
    /\ hpvFetches' = hpvFetches + 1
    /\ IF ~CloudAlive
       THEN /\ fetchFailure' = "refused"
            /\ HpvCrash("AttributeError")
            /\ UNCHANGED <<conn, hpvOpen>>
       ELSE /\ conn' = [conn EXCEPT !["hpv"] =
                           [NoConn EXCEPT !.st = "pending",
                                          !.toCloud = Utf8Encode(test_message)]]
            /\ hpvOpen' = [hpvOpen EXCEPT !.cloud = @ + 1]
            /\ hpvPc' = "TestConnectivity"
            /\ UNCHANGED <<fetchFailure, hpvError, lpvSock>>
    /\ UNCHANGED <<pathVars, clientVars, lpvPc, lpvRequest, lpvToHpv, lpvClosed, lpvReply,
                   lpvSessions, shortSeen, hpvData, hpvSource, hpvDestination,
                   receivedWeights, shortestPath, cloudPc, cloudPeer,
                   cloudHandshake, cloudError, otherSessions>>
    /\ UNCHANGED <<lpvWaiting, weightsBound, globalGraph, cloudOpen, cloudProbe, cloudWrote>>

\* mutant of HPV_TestConnectivity: main goes on to the path computation
\* without reading the graph
HPV_TestConnectivity_SkipsWeights ==
    /\ hpvPc = "TestConnectivity"
    /\ CanRecv(conn["hpv"])
    /\ LET c == conn["hpv"]
           data == Take(c.rcv, RecvSize)
           dec == Utf8Decode(data)
           c1 == [c EXCEPT !.rcv = Drop(@, RecvSize)]
       IN IF dec.ok /\ dec.text = test_message
          THEN /\ conn' = [conn EXCEPT !["hpv"] = c1]
               /\ hpvPc' = "GetShortestPath"
               /\ UNCHANGED <<fetchFailure, hpvError, lpvSock>>
          ELSE /\ conn' = [conn EXCEPT !["hpv"] = PeerLeaves(c1)]
               /\ fetchFailure' = "mismatch"
               /\ HpvCrash(IF dec.ok THEN "AttributeError" ELSE "UnicodeDecodeError")
    /\ UNCHANGED <<pathVars, clientVars, lpvPc, lpvRequest, lpvToHpv, lpvClosed, lpvReply,
                   lpvSessions, shortSeen, hpvData, hpvSource, hpvDestination,
                   receivedWeights, shortestPath, hpvFetches, cloudPc, cloudPeer,
                   cloudHandshake, cloudError, otherSessions>>
    /\ UNCHANGED <<lpvWaiting, hpvOpen, weightsBound, globalGraph, cloudOpen, cloudProbe, cloudWrote>>

\* HPV_ConnectToCloudServer lines 109-130: recv(1024), decode, compare with
\* the probe.  A UnicodeDecodeError is not caught; on a mismatch or an
\* OSError the function returns None and main line 324 calls close() on it.
HPV_TestConnectivity ==
    /\ hpvPc = "TestConnectivity"
    /\ CanRecv(conn["hpv"])
    /\ LET c == conn["hpv"]
           data == Take(c.rcv, RecvSize)
           dec == Utf8Decode(data)
           c1 == [c EXCEPT !.rcv = Drop(@, RecvSize)]
       IN IF dec.ok /\ dec.text = test_message
          THEN /\ conn' = [conn EXCEPT !["hpv"] = c1]
               /\ hpvPc' = "ReceiveWeights"
               /\ UNCHANGED <<fetchFailure, hpvError, lpvSock>>
          ELSE /\ conn' = [conn EXCEPT !["hpv"] = PeerLeaves(c1)]
               /\ fetchFailure' = "mismatch"
               /\ HpvCrash(IF dec.ok THEN "AttributeError" ELSE "UnicodeDecodeError")
    /\ UNCHANGED <<pathVars, clientVars, lpvPc, lpvRequest, lpvToHpv, lpvClosed, lpvReply,
                   lpvSessions, shortSeen, hpvData, hpvSource, hpvDestination,
                   receivedWeights, shortestPath, hpvFetches, cloudPc, cloudPeer,
                   cloudHandshake, cloudError, otherSessions>>
    /\ UNCHANGED <<lpvWaiting, hpvOpen, weightsBound, globalGraph, cloudOpen, cloudProbe, cloudWrote>>

\* mutant of HPV_ReceiveWeights: a graph received in an earlier iteration
\* is kept
HPV_ReceiveWeights_KeepsFirst ==
    /\ hpvPc = "ReceiveWeights"
    /\ CanRecv(conn["hpv"])
    /\ LET c == conn["hpv"]
           serializedWeights == Take(c.rcv, RecvSize)
           r == PickleLoads(serializedWeights)
           c1 == [c EXCEPT !.rcv = Drop(@, RecvSize)]
       IN IF r.err = ""
          THEN /\ receivedWeights' = IF receivedWeights = <<>> THEN r.value
                                     ELSE receivedWeights
               /\ weightsBound' = (receivedWeights = <<>>)
               /\ conn' = [conn EXCEPT !["hpv"] = c1]
               /\ hpvPc' = "GetShortestPath"
               /\ UNCHANGED <<fetchFailure, hpvError, lpvSock>>
          ELSE /\ conn' = [conn EXCEPT !["hpv"] = PeerLeaves(c1)]
               /\ fetchFailure' = "deserialize"
               /\ HpvCrash(IF r.err = "EOFError" THEN "EOFError" ELSE "AttributeError")
               /\ UNCHANGED <<receivedWeights, weightsBound>>
    /\ UNCHANGED <<pathVars, clientVars, lpvPc, lpvRequest, lpvToHpv, lpvClosed, lpvReply,
                   lpvSessions, shortSeen, hpvData, hpvSource, hpvDestination,
                   shortestPath, hpvFetches, cloudPc, cloudPeer,
                   cloudHandshake, cloudError, otherSessions>>
    /\ UNCHANGED <<lpvWaiting, hpvOpen, globalGraph, cloudOpen, cloudProbe, cloudWrote>>

\* HPV_ReceiveWeights: recv(1024) and pickle.loads.  EOFError is not
\* caught; the handler of UnpicklingError reads e.strerror, which that
\* exception does not have (AttributeError).
HPV_ReceiveWeights ==
    /\ hpvPc = "ReceiveWeights"
    /\ CanRecv(conn["hpv"])
    /\ LET c == conn["hpv"]
           serializedWeights == Take(c.rcv, RecvSize)
           r == PickleLoads(serializedWeights)
           c1 == [c EXCEPT !.rcv = Drop(@, RecvSize)]
       IN IF r.err = ""
          THEN /\ receivedWeights' = r.value
               /\ weightsBound' = TRUE
               /\ conn' = [conn EXCEPT !["hpv"] = c1]
               /\ hpvPc' = "GetShortestPath"
               /\ UNCHANGED <<fetchFailure, hpvError, lpvSock>>
          ELSE /\ conn' = [conn EXCEPT !["hpv"] = PeerLeaves(c1)]
               /\ fetchFailure' = "deserialize"
               /\ HpvCrash(IF r.err = "EOFError" THEN "EOFError" ELSE "AttributeError")
               /\ UNCHANGED <<receivedWeights, weightsBound>>
    /\ UNCHANGED <<pathVars, clientVars, lpvPc, lpvRequest, lpvToHpv, lpvClosed, lpvReply,
                   lpvSessions, shortSeen, hpvData, hpvSource, hpvDestination,
                   shortestPath, hpvFetches, cloudPc, cloudPeer,
                   cloudHandshake, cloudError, otherSessions>>
    /\ UNCHANGED <<lpvWaiting, hpvOpen, globalGraph, cloudOpen, cloudProbe, cloudWrote>>

\* mutant of HPV_SendShortestPath: the path is sent behind a length byte
HPV_SendShortestPath_LengthFirst(isNone, sp) ==
    IF isNone THEN [err |-> "ValueError", bytes |-> <<>>]
    ELSE IF \E i \in 1..Len(sp) : sp[i] = PyNone THEN [err |-> "", bytes |-> <<>>]
    ELSE [err |-> "", bytes |-> <<Len(sp)>> \o Utf8Encode(sp)]

\* HPV_SendShortestPath: what is sent to the LPV, and the exception that
\* leaves the function.  bytes([-1]) raises ValueError, which is not caught;
\* "".join of a list holding None raises TypeError, which is caught.
HPV_SendShortestPath(isNone, sp) ==
    IF isNone THEN [err |-> "ValueError", bytes |-> <<>>]
    ELSE IF \E i \in 1..Len(sp) : sp[i] = PyNone THEN [err |-> "", bytes |-> <<>>]
    ELSE [err |-> "", bytes |-> Utf8Encode(sp)]

\* main lines 318-321: HPV_GetShortestPath returns a list on every path, so
\* the argument of HPV_SendShortestPath is never None
HPV_ReplyToLpv ==
    /\ hpvPc = "GetShortestPath"
    /\ LET sp == HPV_GetShortestPath(hpvSource, hpvDestination, receivedWeights)
           sent == HPV_SendShortestPath(FALSE, sp)
       IN /\ shortestPath' = sp
          /\ lpvReply' = lpvReply \o sent.bytes
          /\ IF sent.err # ""
             THEN /\ HpvCrash(sent.err)
                  /\ conn' = [conn EXCEPT !["hpv"] = PeerLeaves(@)]
             ELSE /\ hpvPc' = "CloseSockets"
                  /\ UNCHANGED <<hpvError, lpvSock, conn>>
    /\ UNCHANGED <<pathVars, clientVars, lpvPc, lpvRequest, lpvToHpv, lpvClosed, lpvSessions,
                   shortSeen, hpvData, hpvSource, hpvDestination, receivedWeights,
                   hpvFetches, fetchFailure, cloudPc, cloudPeer, cloudHandshake,
                   cloudError, otherSessions>>
    /\ UNCHANGED <<lpvWaiting, hpvOpen, weightsBound, globalGraph, cloudOpen, cloudProbe, cloudWrote>>

\* mutant of ClosedSockets: LpvSocket.close() is left out
ClosedSockets_CloudOnly(o) == [o EXCEPT !.cloud = @ - 1]

\* main lines 324-325: CloudServerSocket.close() and LpvSocket.close()
ClosedSockets(o) == [lpv |-> o.lpv - 1, cloud |-> o.cloud - 1]

\* main lines 324-325: close both sockets, back to the top of the loop.
\* The next iteration rebinds source, destination and shortestPath before
\* it reads them: the model forgets them here.
HPV_CloseSockets ==
    /\ hpvPc = "CloseSockets"
    /\ conn' = [conn EXCEPT !["hpv"] = PeerLeaves(@)]
    /\ lpvSock' = "closed"
    /\ hpvPc' = "WaitForLpvSession"
    /\ shortSeen' = (shortSeen \/ Len(hpvData) < 2)
    /\ hpvData' = <<>>
    /\ hpvSource' = PyNone
    /\ hpvDestination' = PyNone
    /\ shortestPath' = <<>>
    /\ hpvFetches' = 0
    /\ hpvOpen' = ClosedSockets(hpvOpen)
    /\ fetchFailure' = "none"
    /\ UNCHANGED <<pathVars, clientVars, lpvPc, lpvRequest, lpvToHpv, lpvClosed, lpvReply,
                   lpvSessions, hpvError, cloudPc, cloudPeer, cloudHandshake,
                   cloudError, otherSessions>>
    /\ UNCHANGED <<lpvWaiting, receivedWeights, weightsBound, globalGraph,
                   cloudOpen, cloudProbe, cloudWrote>>

(***************************************************************************)
(* Spec: the Cloud Server                                                  *)
(***************************************************************************)
\* CloudServer_WaitForConnection line 77: accept
CloudServer_Accept ==
    /\ cloudPc = "accept"
    /\ \E p \in Peers :
          /\ conn[p].st = "pending"
          /\ conn' = [conn EXCEPT ![p].st = "accepted"]
          /\ cloudPeer' = p
    /\ cloudOpen' = cloudOpen + 1
    /\ cloudPc' = "handshake"
    /\ UNCHANGED <<pathVars, clientVars, lpvVars, hpvVars, cloudHandshake, cloudError,
                   otherSessions>>
    /\ UNCHANGED <<globalGraph, cloudProbe, cloudWrote>>

\* CloudServer_WaitForConnection lines 82-104: recv(1024), decode, echo.
\* The end of the stream reads as b"" and is echoed as b"".  An OSError
\* returns (None, None), and main line 160 calls close() on None; a
\* UnicodeDecodeError is not caught.
CloudServer_WaitForConnection ==
    /\ cloudPc = "handshake"
    /\ LET c == conn[cloudPeer]
           data == Take(c.toCloud, RecvSize)
           dec == Utf8Decode(data)
       IN /\ c.toCloud # <<>> \/ c.peerEnd # "open"
          /\ IF c.peerEnd = "reset"
             THEN /\ cloudHandshake' = "oserror"
                  /\ cloudPc' = "crashed"
                  /\ cloudError' = "AttributeError"
                  /\ cloudPeer' = "none"
                  /\ conn' = CloudExit(conn)
                  /\ UNCHANGED <<cloudProbe, cloudWrote>>
             ELSE IF ~dec.ok
             THEN /\ cloudHandshake' = "undecodable"
                  /\ cloudPc' = "crashed"
                  /\ cloudError' = "UnicodeDecodeError"
                  /\ cloudPeer' = "none"
                  /\ conn' = CloudExit([conn EXCEPT ![cloudPeer].toCloud = Drop(@, RecvSize)])
                  /\ cloudProbe' = data
                  /\ UNCHANGED cloudWrote
             ELSE /\ cloudHandshake' = IF data = <<>> THEN "eof" ELSE "ok"
                  /\ cloudPc' = "sendWeights"
                  /\ conn' = [conn EXCEPT ![cloudPeer].toCloud = Drop(@, RecvSize),
                                          ![cloudPeer].wire = Written(@, Utf8Encode(dec.text))]
                  /\ cloudProbe' = data
                  /\ cloudWrote' = IF data = <<>> THEN cloudWrote
                                   ELSE Append(cloudWrote, Utf8Encode(dec.text))
                  /\ UNCHANGED <<cloudError, cloudPeer>>
    /\ UNCHANGED <<pathVars, clientVars, lpvVars, hpvVars, otherSessions>>
    /\ UNCHANGED <<globalGraph, cloudOpen>>

\* CloudServer_SendWeights: sendall(pickle.dumps(CloudServer_GlobalGraph)).
\* On a connection the peer has left, sendall either still succeeds or
\* raises an OSError, which is caught.
CloudServer_SendWeights ==
    /\ cloudPc = "sendWeights"
    /\ \/ /\ conn' = [conn EXCEPT ![cloudPeer].wire = Written(@, PickleDumps(globalGraph)),
                                  ![cloudPeer].graphSent = @ + 1]
          /\ cloudWrote' = Append(cloudWrote, PickleDumps(globalGraph))
       \/ /\ conn[cloudPeer].peerEnd # "open"
          /\ UNCHANGED <<conn, cloudWrote>>
    /\ cloudPc' = "close"
    /\ UNCHANGED <<pathVars, clientVars, lpvVars, hpvVars, cloudPeer, cloudHandshake,
                   cloudError, otherSessions>>
    /\ UNCHANGED <<globalGraph, cloudOpen, cloudProbe>>

\* main line 160: close the accepted socket, back to accept
CloudServer_Close ==
    /\ cloudPc = "close"
    /\ conn' = [conn EXCEPT ![cloudPeer] = Norm([@ EXCEPT !.cloudEnd = "closed"])]
    /\ cloudPeer' = "none"
    /\ cloudPc' = "accept"
    /\ cloudHandshake' = "none"
    /\ cloudOpen' = cloudOpen - 1
    /\ cloudProbe' = <<>>
    /\ cloudWrote' = <<>>
    /\ UNCHANGED <<pathVars, clientVars, lpvVars, hpvVars, cloudError, otherSessions>>
    /\ UNCHANGED <<globalGraph>>

\* "Runs continuously until manually stopped": the process is stopped
CloudServer_Stop ==
    /\ CloudAlive
    /\ cloudPc' = "stopped"
    /\ cloudPeer' = "none"
    /\ conn' = CloudExit(conn)
    /\ UNCHANGED <<pathVars, clientVars, lpvVars, hpvVars, cloudHandshake, cloudError,
                   otherSessions>>
    /\ UNCHANGED <<globalGraph, cloudOpen, cloudProbe, cloudWrote>>

(***************************************************************************)
(* Spec: another peer of the Cloud Server's port                           *)
(***************************************************************************)
Other_Connect ==
    /\ CloudAlive
    /\ conn["other"].st = "none"
    /\ otherSessions < MaxOtherSessions
    /\ conn' = [conn EXCEPT !["other"] = [NoConn EXCEPT !.st = "pending"]]
    /\ otherSessions' = otherSessions + 1
    /\ UNCHANGED <<pathVars, clientVars, lpvVars, hpvVars, cloudPc, cloudPeer,
                   cloudHandshake, cloudError>>
    /\ UNCHANGED <<globalGraph, cloudOpen, cloudProbe, cloudWrote>>

OtherOpen ==
    /\ conn["other"].st # "none"
    /\ conn["other"].peerEnd = "open"

\* it sends a probe
Other_SendProbe ==
    /\ OtherOpen
    /\ conn["other"].toCloud = <<>>
    /\ conn["other"].wire = <<>>
    /\ \E b \in OtherProbes : conn' = [conn EXCEPT !["other"].toCloud = b]
    /\ UNCHANGED <<pathVars, clientVars, lpvVars, hpvVars, cloudPc, cloudPeer,
                   cloudHandshake, cloudError, otherSessions>>
    /\ UNCHANGED <<globalGraph, cloudOpen, cloudProbe, cloudWrote>>

\* it closes the connection
Other_Close ==
    /\ OtherOpen
    /\ conn' = [conn EXCEPT !["other"] = PeerLeaves(@)]
    /\ UNCHANGED <<pathVars, clientVars, lpvVars, hpvVars, cloudPc, cloudPeer,
                   cloudHandshake, cloudError, otherSessions>>
    /\ UNCHANGED <<globalGraph, cloudOpen, cloudProbe, cloudWrote>>

\* it aborts the connection: the Cloud Server's recv raises ConnectionResetError
Other_Reset ==
    /\ OtherOpen
    /\ conn' = [conn EXCEPT !["other"] = Norm([@ EXCEPT !.peerEnd = "reset"])]
    /\ UNCHANGED <<pathVars, clientVars, lpvVars, hpvVars, cloudPc, cloudPeer,
                   cloudHandshake, cloudError, otherSessions>>
    /\ UNCHANGED <<globalGraph, cloudOpen, cloudProbe, cloudWrote>>

(***************************************************************************)
(* Spec                                                                    *)
(***************************************************************************)
Init == ProtoInit /\ PathOff /\ ClientOff

Next ==
    \/ LPV_Connect
    \/ LPV_SendRequest
    \/ LPV_CloseEarly
    \/ LPV_ConnectWaiting
    \/ LPV_ReceiveReply
    \/ HPV_WaitForLpvSession
    \/ HPV_ReceiveLpvRequest
    \/ HPV_ConnectToCloudServer
    \/ HPV_TestConnectivity
    \/ HPV_ReceiveWeights
    \/ HPV_ReplyToLpv
    \/ HPV_CloseSockets
    \/ Deliver
    \/ CloudServer_Accept
    \/ CloudServer_WaitForConnection
    \/ CloudServer_SendWeights
    \/ CloudServer_Close
    \/ CloudServer_Stop
    \/ Other_Connect
    \/ Other_SendProbe
    \/ Other_Close
    \/ Other_Reset

Spec == Init /\ [][Next]_vars

(***************************************************************************)
(* SpecClient: LowPowerVehicle.py, after it connected and sent its request *)
(***************************************************************************)
\* the bytes a peer may reply with: 'A', 'B', 'D' and 0xFF
ClientBytes == {65, 66, 68, 255}

Replies == UNION {[1..k -> ClientBytes] : k \in 0..MaxReplyLen}

\* " -> "
Arrow == <<32, 45, 62, 32>>

\* sep.join(t): the characters of t, sep between two neighbours
RECURSIVE Join(_, _)
Join(sep, t) ==
    IF t = <<>> THEN <<>>
    ELSE IF Len(t) = 1 THEN t
    ELSE <<Head(t)>> \o sep \o Join(sep, Tail(t))

\* lines 4-19 have run: the peer replies with clientStream and closes
InitClient ==
    /\ clientPc = "recv"
    /\ clientStream \in Replies
    /\ clientData = <<>>
    /\ response = <<>>
    /\ formatted_path = <<>>
    /\ clientError = ""
    /\ ProtoInit
    /\ PathOff

\* line 22: recv(1024) returns the reply or its first part (b"" at the end
\* of the stream) and decode raises UnicodeDecodeError, which is not caught
LowPowerVehicle_Receive ==
    /\ clientPc = "recv"
    /\ \E k \in {Min(1, Len(clientStream)), Min(RecvSize, Len(clientStream))} :
          LET data == Take(clientStream, k)
              dec == Utf8Decode(data)
          IN /\ clientData' = data
             /\ IF dec.ok
                THEN /\ response' = dec.text
                     /\ clientPc' = "format"
                     /\ UNCHANGED clientError
                ELSE /\ clientPc' = "crashed"
                     /\ clientError' = "UnicodeDecodeError"
                     /\ UNCHANGED response
    /\ UNCHANGED <<pathVars, protoVars, clientStream, formatted_path>>

\* lines 25-29: join, print, close
LowPowerVehicle_Render ==
    /\ clientPc = "format"
    /\ formatted_path' = Join(Arrow, response)
    /\ clientPc' = "done"
    /\ UNCHANGED <<pathVars, protoVars, clientStream, clientData, response,
                   clientError>>

NextClient == LowPowerVehicle_Receive \/ LowPowerVehicle_Render

SpecClient == InitClient /\ [][NextClient]_vars

(***************************************************************************)
(* SpecFetch: the transfer of the graph, for any dict the Cloud Server     *)
(* may hold, from the state in which the handshake of a session of the HPV *)
(* is done                                                                 *)
(***************************************************************************)
\* a dict whose pickle does not fit one recv(1024): a chain of edges of
\* weight 1
LargeGraph == [i \in 1..(RecvSize \div 3 + 1) |-> <<1000 + i, 1001 + i, 1>>]

\* the non-empty dicts of the Cloud Server
FetchGraphs == UNION {DictsOfSize(k) : k \in 1..MaxFetchEdges} \cup {LargeGraph}

\* HighPowerVehicle.py main is at line 315 and CloudServer.py main at line
\* 157, for the request b"BA"
InitFetch ==
    /\ globalGraph \in FetchGraphs
    /\ lpvPc = "sent"
    /\ lpvSock = "accepted"
    /\ lpvRequest = <<66, 65>>
    /\ lpvToHpv = <<>>
    /\ lpvClosed = FALSE
    /\ lpvReply = <<>>
    /\ lpvSessions = 1
    /\ lpvWaiting = 0
    /\ shortSeen = FALSE
    /\ hpvPc = "ReceiveWeights"
    /\ hpvData = <<66, 65>>
    /\ hpvSource = 66
    /\ hpvDestination = 65
    /\ receivedWeights = <<>>
    /\ shortestPath = <<>>
    /\ hpvFetches = 1
    /\ fetchFailure = "none"
    /\ hpvError = ""
    /\ hpvOpen = [lpv |-> 1, cloud |-> 1]
    /\ weightsBound = FALSE
    /\ cloudPc = "sendWeights"
    /\ cloudPeer = "hpv"
    /\ cloudHandshake = "ok"
    /\ cloudError = ""
    /\ conn = [p \in Peers |-> IF p = "hpv" THEN [NoConn EXCEPT !.st = "accepted"]
                               ELSE NoConn]
    /\ cloudOpen = 1
    /\ cloudProbe = Utf8Encode(test_message)
    /\ cloudWrote = <<Utf8Encode(test_message)>>
    /\ otherSessions = 0
    /\ PathOff
    /\ ClientOff

NextFetch ==
    \/ CloudServer_SendWeights
    \/ CloudServer_Close
    \/ Deliver
    \/ HPV_ReceiveWeights

SpecFetch == InitFetch /\ [][NextFetch]_vars

(***************************************************************************)
(* Reference semantics of "shortest path", by enumeration of the simple    *)
(* paths of the undirected graph of an edge map.                           *)
(***************************************************************************)
NodesOf(m) == {m[i][1] : i \in 1..Len(m)} \cup {m[i][2] : i \in 1..Len(m)}

JoinedBy(m, u, v) ==
    {i \in 1..Len(m) : \/ m[i][1] = u /\ m[i][2] = v
                       \/ m[i][1] = v /\ m[i][2] = u}

Joined(m, u, v) == JoinedBy(m, u, v) # {}

MinOfSet(S) == CHOOSE x \in S : \A y \in S : x <= y

\* the cheapest edge joining u and v
EdgeWeight(m, u, v) == MinOfSet({m[i][3] : i \in JoinedBy(m, u, v)})

IsWalk(m, p) == \A i \in 1..(Len(p) - 1) : Joined(m, p[i], p[i + 1])

RECURSIVE WalkWeight(_, _)
WalkWeight(m, p) ==
    IF Len(p) <= 1 THEN 0
    ELSE EdgeWeight(m, p[1], p[2]) + WalkWeight(m, Tail(p))

SimplePaths(m, N, s, d) ==
    {p \in UNION {[1..k -> N] : k \in 1..Cardinality(N)} :
        /\ p[1] = s
        /\ p[Len(p)] = d
        /\ \A i, j \in 1..Len(p) : i # j => p[i] # p[j]
        /\ IsWalk(m, p)}

Reachable(m, N, s, d) == SimplePaths(m, N, s, d) # {}

TrueMinDist(m, N, s, d) == MinOfSet({WalkWeight(m, p) : p \in SimplePaths(m, N, s, d)})

(***************************************************************************)
(* Claims on HPV_GetShortestPath (SpecPath)                                *)
(***************************************************************************)
Returned == pc = "returned"

\* C1: when d is reachable from s, the returned list starts with s, ends
\* with d, steps along edges of the map (either direction), and its summed
\* edge weights equal the minimum distance from s to d.
C1_ShortestPath ==
    (Returned /\ Reachable(map, Nodes, source, destination)) =>
        /\ path # <<>>
        /\ path[1] = source
        /\ path[Len(path)] = destination
        /\ IsWalk(map, path)
        /\ WalkWeight(map, path) = TrueMinDist(map, Nodes, source, destination)

\* a returned two-hop path that is cheaper than the direct edge
C1_Witness ==
    /\ Returned
    /\ Len(path) = 3
    /\ Joined(map, source, destination)
    /\ WalkWeight(map, path) < EdgeWeight(map, source, destination)

\* C7: when d is not reachable from s, the function returns [].
C7_UnreachableNoPath ==
    (Returned /\ ~Reachable(map, Nodes, source, destination)) => path = <<>>

\* the heap emptied on a destination that is a node of the map
C7_Witness ==
    /\ Returned
    /\ ~Reachable(map, Nodes, source, destination)
    /\ destination \in NodesOf(map)
    /\ path = <<>>

\* C8: a query (s, s) returns [s], of total weight 0.
C8_SameNode ==
    (Returned /\ source = destination) =>
        (path = <<source>> /\ WalkWeight(map, path) = 0)

C8_Witness ==
    /\ Returned
    /\ source = destination
    /\ source \in NodesOf(map)
    /\ path = <<source>>

\* every key the loop looks up in the distance dictionary is present
NoKeyError ==
    pc = "loop" =>
        /\ \A i \in 1..Len(pq) : pq[i][2] \in DOMAIN distances
        /\ \A n \in DOMAIN graph : \A i \in 1..Len(graph[n]) :
               graph[n][i][1] \in DOMAIN distances

AbsentEndpoint == source \notin NodesOf(map) \/ destination \notin NodesOf(map)

\* C9 as stated: when the source or the destination is an endpoint of no
\* edge of the map, the function returns [].
C9_AbsentNoPath == (Returned /\ AbsentEndpoint) => path = <<>>

\* C9 amended: when the source or the destination is an endpoint of no edge
\* and source differs from destination, the function raises no KeyError and
\* returns [].
C9_AbsentNoPathDistinct ==
    /\ AbsentEndpoint => NoKeyError
    /\ (Returned /\ AbsentEndpoint /\ source # destination) => path = <<>>

C9_Witness ==
    /\ Returned
    /\ source \notin NodesOf(map)
    /\ destination \in NodesOf(map)
    /\ path = <<>>

(***************************************************************************)
(* Claims on the sessions (Spec)                                           *)
(***************************************************************************)
GraphNodes == NodesOf(CloudServer_GlobalGraph)

\* the HPV is inside a session and past the read of the request
RequestRead == hpvPc \notin {"WaitForLpvSession", "ReceiveLpvRequest"}

\* the request of this session arrived with fewer than 2 bytes
ShortRequest == RequestRead /\ Len(hpvData) < 2

\* the request of this session is two characters
WellFormed == RequestRead /\ Len(hpvData) = 2 /\ hpvSource # PyNone

\* the HPV has passed HPV_SendShortestPath in this session
Replied == hpvPc = "CloseSockets"

\* C2: in a session where the path computation finds no path, the HPV
\* sends the LPV exactly the one byte 255.
C2_NoPathSentinel ==
    (Replied /\ shortestPath = <<>>) => lpvReply = <<255>>

\* C3: after a failure of the fetch from the Cloud Server (connection
\* refused, handshake mismatch, payload that cannot be deserialized) main
\* is still running and no reply was sent.
C3_FetchFailureSurvived ==
    fetchFailure # "none" => (hpvPc # "crashed" /\ lpvReply = <<>>)

\* C4: in a session whose request arrived with fewer than 2 bytes, the HPV
\* opens no connection to the Cloud Server.
C4_ShortRequestNoFetch == ShortRequest => hpvFetches = 0

\* C5: a request of fewer than 2 bytes gets no reply bytes and leaves main
\* running, and a well-formed request on a later connection is answered
\* with a shortest path.
C5_ShortRequestHarmless ==
    /\ ShortRequest => (lpvReply = <<>> /\ hpvPc # "crashed")
    /\ (shortSeen /\ Replied /\ WellFormed
          /\ Reachable(CloudServer_GlobalGraph, GraphNodes, hpvSource, hpvDestination)) =>
          /\ lpvReply # <<>>
          /\ lpvReply[1] = hpvSource
          /\ lpvReply[Len(lpvReply)] = hpvDestination
          /\ IsWalk(CloudServer_GlobalGraph, lpvReply)
          /\ WalkWeight(CloudServer_GlobalGraph, lpvReply) =
                TrueMinDist(CloudServer_GlobalGraph, GraphNodes, hpvSource, hpvDestination)

\* C6: in a Cloud Server session whose handshake read or echo fails (the
\* peer left before sending a probe, socket error, probe that cannot be
\* decoded) no graph bytes are written on the connection and main is
\* still running.
C6_HandshakeFailureHarmless ==
    cloudHandshake \in {"eof", "oserror", "undecodable"} =>
        /\ cloudPc # "crashed"
        /\ cloudPeer \in Peers => conn[cloudPeer].graphSent = 0

ClientOver == clientPc \in {"done", "crashed"}

\* C11: when the bytes the client received begin with 255 the client ends
\* normally and renders no node; for every other reply it ends normally and
\* renders each received byte as one node, in order.
C11_SentinelMeansNoPath ==
    ClientOver =>
        IF clientData # <<>> /\ clientData[1] = 255
        THEN clientPc = "done" /\ formatted_path = <<>>
        ELSE clientPc = "done" /\ formatted_path = Join(Arrow, clientData)

(***************************************************************************)
(* Claims on the order and the resources of the sessions (Spec)            *)
(***************************************************************************)
NoSocket == [lpv |-> 0, cloud |-> 0]

\* C12: a step that sends reply bytes to the LPV is taken after the connect,
\* the handshake and the graph read of the same session have completed, and
\* a step that opens the connection to the Cloud Server is taken after the
\* request of the session was read.
C12_FetchPrecedesReply ==
    [][/\ Len(lpvReply') > Len(lpvReply) =>
            /\ hpvPc = "GetShortestPath"
            /\ hpvFetches = 1
            /\ fetchFailure = "none"
            /\ weightsBound
       /\ hpvFetches' > hpvFetches =>
            /\ hpvPc = "ConnectToCloudServer"
            /\ hpvData = Take(lpvRequest, 2)
            /\ lpvToHpv = Drop(lpvRequest, 2)]_vars

\* a reply was sent in a session that read its graph
C12_Witness ==
    /\ hpvPc = "CloseSockets"
    /\ weightsBound
    /\ hpvFetches = 1
    /\ lpvReply # <<>>

\* C13: when a session of the HPV is over (main is back at accept, or has
\* ended) the HPV has closed the sockets it accepted and connected, and
\* when a session of the Cloud Server is over the Cloud Server has closed
\* the socket it accepted.
C13_ClosedOnEveryExit ==
    /\ hpvPc \in {"WaitForLpvSession", "crashed"} => hpvOpen = NoSocket
    /\ cloudPc \in {"accept", "crashed"} => cloudOpen = 0

\* C14: the HPV holds at most one accepted LPV socket and at most one
\* socket connected to the Cloud Server, it connects to the Cloud Server at
\* most once per session, and it accepts a connection only when it holds no
\* socket of an earlier session.
C14_OneSessionAtATime ==
    /\ [](/\ hpvOpen.lpv <= 1
          /\ hpvOpen.cloud <= 1
          /\ hpvFetches <= 1)
    /\ [][hpvOpen'.lpv > hpvOpen.lpv =>
            /\ hpvOpen = NoSocket
            /\ conn["hpv"].st = "none" \/ conn["hpv"].peerEnd = "closed"]_vars

\* a second host waits in the listen queue while the HPV reads the graph
C14_Witness ==
    /\ lpvWaiting = 1
    /\ hpvPc = "ReceiveWeights"
    /\ hpvOpen = [lpv |-> 1, cloud |-> 1]

\* C15: a request of more than 2 bytes is treated as malformed (no source
\* and destination are taken from it), gets no reply bytes and leaves main
\* running.
C15_LongRequestRejected ==
    Len(lpvRequest) > 2 =>
        /\ RequestRead => (hpvSource = PyNone /\ hpvDestination = PyNone)
        /\ lpvReply = <<>>
        /\ hpvPc # "crashed"

\* the Cloud Server has passed CloudServer_SendWeights in a session whose
\* handshake read and echoed a probe
SessionServed == cloudPc = "close" /\ cloudHandshake = "ok"

\* the writes of a served session: the probe as read, then the whole graph
EchoThenGraph ==
    /\ Len(cloudWrote) = 2
    /\ cloudWrote[1] = cloudProbe
    /\ PickleLoads(cloudWrote[2]) = [err |-> "", value |-> CloudServer_GlobalGraph]

\* between two sessions the Cloud Server holds no socket and nothing of the
\* session before
BetweenSessions ==
    /\ cloudOpen <= 1
    /\ cloudPc = "accept" => (cloudOpen = 0 /\ cloudProbe = <<>> /\ cloudWrote = <<>>)

\* C16 as stated: in every session of the Cloud Server whose handshake
\* succeeds, the writes are the probe as read and then the whole graph,
\* once; the socket is closed before the next accept.
C16_EchoGraphClose == (SessionServed => EchoThenGraph) /\ BetweenSessions

\* C16 amended: the same, for the sessions whose peer has kept its end of
\* the connection open.
C16_EchoGraphCloseWhilePeerStays ==
    /\ (SessionServed /\ conn[cloudPeer].peerEnd = "open") => EchoThenGraph
    /\ BetweenSessions

\* the session of the HPV, served after a session of the other peer
C16_Witness ==
    /\ SessionServed
    /\ cloudPeer = "hpv"
    /\ conn["hpv"].peerEnd = "open"
    /\ otherSessions = 1
    /\ conn["other"].st = "none"
    /\ cloudWrote = <<Utf8Encode(test_message), PickleDumps(CloudServer_GlobalGraph)>>

\* C17: the dict of the Cloud Server keeps its value; the step that runs
\* HPV_GetShortestPath leaves the map it is given unchanged; and the map a
\* session computes on was received in that session.
C17_GraphsNotShared ==
    /\ [](globalGraph = CloudServer_GlobalGraph)
    /\ [](hpvPc = "GetShortestPath" => weightsBound)
    /\ [][hpvPc = "GetShortestPath" => receivedWeights' = receivedWeights]_vars

\* the second session of the HPV is about to compute on the graph it read
C17_Witness ==
    /\ lpvSessions = 2
    /\ lpvWaiting = 0
    /\ hpvPc = "GetShortestPath"
    /\ weightsBound
    /\ receivedWeights = CloudServer_GlobalGraph

(***************************************************************************)
(* Claims on duplicate pairs (SpecPath)                                    *)
(***************************************************************************)
\* items i and j of m join the same two nodes, in opposite orientations
SamePair(m, i, j) == m[i][1] = m[j][2] /\ m[i][2] = m[j][1]

\* m holds a pair of nodes twice, with different weights
HasUnequalDuplicate(m) ==
    \E i, j \in 1..Len(m) : SamePair(m, i, j) /\ m[i][3] # m[j][3]

\* m without the items for which the same pair has a smaller weight
KeepSmaller(m) ==
    LET Kept == {i \in 1..Len(m) :
                    \A j \in 1..Len(m) : SamePair(m, i, j) => m[i][3] <= m[j][3]}
        F[i \in 0..Len(m)] ==
            IF i = 0 THEN <<>>
            ELSE IF i \in Kept THEN Append(F[i - 1], m[i]) ELSE F[i - 1]
    IN F[Len(m)]

\* C18: when the map holds a pair of nodes as (u, v) and as (v, u) with
\* different weights and d is reachable from s, the distance computed for d
\* and the total weight of the returned path equal the minimum distance in
\* the graph that keeps only the smaller weight of the pair.
C18_SmallerWeightWins ==
    (Returned /\ HasUnequalDuplicate(map)
       /\ Reachable(map, Nodes, source, destination)) =>
        /\ path # <<>>
        /\ path[1] = source
        /\ path[Len(path)] = destination
        /\ IsWalk(KeepSmaller(map), path)
        /\ WalkWeight(KeepSmaller(map), path) =
              TrueMinDist(KeepSmaller(map), Nodes, source, destination)
        /\ distances[destination] =
              TrueMinDist(KeepSmaller(map), Nodes, source, destination)

\* the returned path is the edge of a duplicated pair whose larger weight
\* comes later in the map
C18_Witness ==
    /\ Returned
    /\ Len(path) = 2
    /\ \E i, j \in 1..Len(map) :
          /\ i < j
          /\ map[i] = <<path[1], path[2], 0>>
          /\ map[j] = <<path[2], path[1], 1>>
    /\ distances[destination] = 0

(***************************************************************************)
(* Claims on the transfer of the graph (SpecFetch, Spec)                   *)
(***************************************************************************)
\* HPV_ReceiveWeights has run in this session
WeightsRead == hpvPc \in {"GetShortestPath", "crashed"}

\* C19: after CloudServer_SendWeights sent a non-empty dict of any size,
\* HPV_ReceiveWeights returns a dict equal to it.
C19_RoundTrip ==
    WeightsRead => (hpvPc = "GetShortestPath" /\ receivedWeights = globalGraph)

\* the Cloud Server has echoed the probe of the HPV and written the graph
\* behind it
NormalSession == conn["hpv"].graphSent = 1

\* C20: when the Cloud Server echoes the probe and writes the graph behind
\* it, the handshake of the HPV succeeds and HPV_ReceiveWeights returns the
\* whole graph, however the two writes are cut into the reads of the HPV.
C20_AnyDeliveryWorks ==
    NormalSession =>
        /\ fetchFailure = "none"
        /\ weightsBound => receivedWeights = CloudServer_GlobalGraph

(***************************************************************************)
(* Claims on the loop of HPV_GetShortestPath (SpecPath)                    *)
(***************************************************************************)
\* the total weights of the node sequence p, over the items of m that join
\* each two neighbours of p
RECURSIVE WalkWeights(_, _)
WalkWeights(m, p) ==
    IF Len(p) <= 1 THEN {0}
    ELSE {m[i][3] + r : i \in JoinedBy(m, p[1], p[2]), r \in WalkWeights(m, Tail(p))}

\* the entry e = (distance, node, path) holds a path from the source to
\* node along edges of the map, of total weight distance
SoundEntry(e) ==
    /\ e[3] # <<>>
    /\ e[3][1] = source
    /\ e[3][Len(e[3])] = e[2]
    /\ IsWalk(map, e[3])
    /\ e[1] \in WalkWeights(map, e[3])

\* the recorded distance of n is not below the minimum distance of n from
\* the source (infinity for a node that cannot be reached)
NotBelowMinimum(n) ==
    LET P == SimplePaths(map, Nodes, source, n)
    IN IF P = {} THEN distances[n] = Infinity
       ELSE \E p \in P : WalkWeight(map, p) <= distances[n]

\* C21: at every step of the loop every heap entry (distance, node, path)
\* holds a path from the source to node along edges of the map, of total
\* weight distance; the recorded distance of every node is never below its
\* minimum distance from the source, and never increases.
C21_LoopInvariant ==
    /\ [](pc \in {"loop", "returned"} =>
            /\ \A i \in 1..Len(pq) : SoundEntry(pq[i])
            /\ \A n \in DOMAIN distances : NotBelowMinimum(n))
    /\ [][pc = "loop" =>
            /\ DOMAIN distances' = DOMAIN distances
            /\ \A n \in DOMAIN distances : distances'[n] <= distances[n]]_vars

\* the heap holds two entries for one node, the later one found through a
\* longer and cheaper path and recorded as the best distance of the node
C21_Witness ==
    /\ pc = "loop"
    /\ \E i, j \in 1..Len(pq) :
          /\ pq[i][2] = pq[j][2]
          /\ pq[i][1] < pq[j][1]
          /\ Len(pq[i][3]) > Len(pq[j][3])
          /\ distances[pq[i][2]] = pq[i][1]

(***************************************************************************)
(* Claims on the enumeration order of the map (SpecPath)                   *)
(***************************************************************************)
\* item e comes before item f in the order of the keys (u, v)
KeyLess(e, f) == e[1] < f[1] \/ (e[1] = f[1] /\ e[2] < f[2])

\* the items of m in the order of their keys: the same dict, enumerated in
\* one fixed order
SortedMap(m) ==
    [i \in 1..Len(m) |->
        CHOOSE e \in Range(m) :
            Cardinality({f \in Range(m) : KeyLess(f, e)}) = i - 1]

\* C22: the returned path is the path returned for the same dict and query
\* with the items enumerated in key order; the maps of SpecPath are the
\* dicts in every enumeration order, so any two orders return one path.
C22_OrderIndependent ==
    Returned => path = HPV_GetShortestPath(source, destination, SortedMap(map))

\* a run on a map that is not in key order, whose adjacency lists differ
\* from those of the key order, with a second path of the same weight
C22_Witness ==
    /\ Returned
    /\ path # <<>>
    /\ map # SortedMap(map)
    /\ AdjacencyOf(map) # AdjacencyOf(SortedMap(map))
    /\ \E p \in SimplePaths(map, Nodes, source, destination) :
          p # path /\ WalkWeight(map, p) = WalkWeight(map, path)

(***************************************************************************)
(* Claims on the termination of HPV_GetShortestPath (SpecPathFair)         *)
(***************************************************************************)
\* the entries an iteration pushed
Pushed == {pq'[i] : i \in 1..Len(pq')} \ Range(pq)

RECURSIVE SumOf(_, _)
SumOf(f, S) == IF S = {} THEN 0
               ELSE LET n == CHOOSE x \in S : TRUE IN f[n] + SumOf(f, S \ {n})

\* a natural number that every iteration lowers: a push costs one entry and
\* pays at least one unit of recorded distance
Rank(dist, heap) == 2 * SumOf(dist, DOMAIN dist) + Len(heap)

\* C23: on every map (zero weights and cycles included) and every query the
\* loop ends, by the extraction of the destination or on an empty heap; an
\* iteration pushes an entry for a node only with a distance strictly below
\* the distance recorded for the node before, and the recorded distance of
\* that node decreases, so that every iteration lowers Rank, which stays a
\* natural number.
C23_LoopTerminates ==
    /\ <>Returned
    /\ [][pc = "loop" /\ pq # <<>> =>
            /\ \A e \in Pushed :
                  /\ e[1] < distances[e[2]]
                  /\ distances'[e[2]] < distances[e[2]]
            /\ Rank(distances', pq') < Rank(distances, pq)
            /\ Rank(distances', pq') >= 0]_vars

\* the loop has ended with a path on a triangle of zero-weight edges
C23_Witness ==
    /\ Returned
    /\ Len(map) = 3
    /\ \A i \in 1..Len(map) : map[i][3] = 0
    /\ \A u, v \in Nodes : u # v => Joined(map, u, v)
    /\ path # <<>>

====
